---- MODULE Spec2Model ----
(***************************************************************************)
(* Model of the four-stage pricing pipeline of app.py: Cost Calculator,    *)
(* Market Analyzer, Strategy Modeler and Optimization Simulator.           *)
(*                                                                         *)
(* Python floats are modelled as exact rationals extended with inf, -inf   *)
(* and nan (records [k, n, d]); Python exceptions that a float operation   *)
(* or round() can raise are values of kind "ZeroDivisionError",            *)
(* "OverflowError" and "ValueError".  Binary rounding error of the         *)
(* arithmetic is abstracted away.                                          *)
(***************************************************************************)
EXTENDS Integers, Sequences, FiniteSets, TLC

\* ---------------------------------------------------------------- bounds
\* numeric form inputs range over the amounts 0..MaxAmount
MaxAmount == 2
\* competitor prices typed into the Market Analyzer form range over 1..MaxPrice
MaxPrice == 2

\* ------------------------------------------------- Python float arithmetic
Abs(x) == IF x < 0 THEN -x ELSE x

RECURSIVE GCD(_, _)
GCD(a, b) == IF b = 0 THEN a ELSE GCD(b, a % b)

\* the finite float n/d, in lowest terms with a positive denominator
Fin(n, d) ==
    LET s == IF d < 0 THEN -1 ELSE 1
        g == GCD(Abs(n), Abs(d))
    IN  [k |-> "fin", n |-> (s * n) \div g, d |-> (s * d) \div g]

Int2F(i) == [k |-> "fin", n |-> i, d |-> 1]
Zero == Int2F(0)
One  == Int2F(1)
Inf  == [k |-> "inf",  n |-> 1,  d |-> 0]
NInf == [k |-> "ninf", n |-> -1, d |-> 0]
NaN  == [k |-> "nan",  n |-> 0,  d |-> 0]

Exc(name) == [k |-> name, n |-> 0, d |-> 0]
ExcNames == {"ZeroDivisionError", "OverflowError", "ValueError", "TypeError"}
IsExc(a) == a.k \in ExcNames
IsFin(a) == a.k = "fin"
IsNum(a) == a.k \in {"fin", "inf", "ninf"}

\* sign of a float: -1, 0, 1 (0 for nan)
Sign(a) == IF a.n > 0 THEN 1 ELSE IF a.n < 0 THEN -1 ELSE 0

FNeg(a) ==
    CASE a.k = "fin"  -> [k |-> "fin", n |-> -a.n, d |-> a.d]
      [] a.k = "inf"  -> NInf
      [] a.k = "ninf" -> Inf
      [] OTHER        -> a

FAdd(a, b) ==
    CASE IsExc(a) -> a
      [] IsExc(b) -> b
      [] a.k = "nan" \/ b.k = "nan" -> NaN
      [] IsFin(a) /\ IsFin(b) -> Fin(a.n * b.d + b.n * a.d, a.d * b.d)
      [] IsFin(a) -> b
      [] IsFin(b) -> a
      [] a.k = b.k -> a
      [] OTHER -> NaN

FSub(a, b) == FAdd(a, FNeg(b))

FMul(a, b) ==
    CASE IsExc(a) -> a
      [] IsExc(b) -> b
      [] a.k = "nan" \/ b.k = "nan" -> NaN
      [] IsFin(a) /\ IsFin(b) -> Fin(a.n * b.n, a.d * b.d)
      [] Sign(a) * Sign(b) = 0 -> NaN
      [] Sign(a) * Sign(b) > 0 -> Inf
      [] OTHER -> NInf

\* Python's float division: a zero divisor raises ZeroDivisionError
FDiv(a, b) ==
    CASE IsExc(a) -> a
      [] IsExc(b) -> b
      [] IsFin(b) /\ b.n = 0 -> Exc("ZeroDivisionError")
      [] a.k = "nan" \/ b.k = "nan" -> NaN
      [] IsFin(a) /\ IsFin(b) -> Fin(a.n * b.d, a.d * b.n)
      [] IsFin(a) -> Zero
      [] IsFin(b) -> IF Sign(a) * Sign(b) > 0 THEN Inf ELSE NInf
      [] OTHER -> NaN

\* a < b ; every comparison with nan is False
FLt(a, b) ==
    /\ IsNum(a) /\ IsNum(b)
    /\ \/ a.k = "ninf" /\ b.k # "ninf"
       \/ b.k = "inf" /\ a.k # "inf"
       \/ IsFin(a) /\ IsFin(b) /\ a.n * b.d < b.n * a.d
FEq(a, b) == IsNum(a) /\ IsNum(b) /\ a = b
FLe(a, b) == FLt(a, b) \/ FEq(a, b)
FGt(a, b) == FLt(b, a)
FGe(a, b) == FLe(b, a)

\* Python's round(x) with one argument: nearest integer, ties to even;
\* round(nan) raises ValueError, round(+-inf) raises OverflowError
PyRound(a) ==
    CASE IsExc(a) -> a
      [] a.k = "nan" -> Exc("ValueError")
      [] a.k \in {"inf", "ninf"} -> Exc("OverflowError")
      [] OTHER ->
           LET q == a.n \div a.d
               r == a.n - q * a.d
           IN  [k |-> "int", d |-> 1,
                n |-> IF 2 * r < a.d THEN q
                      ELSE IF 2 * r > a.d THEN q + 1
                      ELSE IF q % 2 = 0 THEN q ELSE q + 1]

NA == [k |-> "N/A", n |-> 0, d |-> 0]

\* ------------------------------------------------------ strings and forms
\* A submitted value: absent (None), a text that float() rejects, or the
\* text of a float (float(repr(x)) = x, also for inf and nan).
None    == [s |-> "None",  t |-> "",  v |-> Zero]
Text(t) == [s |-> "text",  t |-> t,   v |-> Zero]
Repr(v) == [s |-> "float", t |-> "",  v |-> v]

\* Python's truth value of request.form.get(...)
Truthy(x) == ~(x.s = "None" \/ (x.s = "text" /\ x.t = ""))

\* float(value): TypeError on None, ValueError on a non-numeric text
PyFloat(x) ==
    CASE x.s = "None" -> Exc("TypeError")
      [] x.s = "text" -> Exc("ValueError")
      [] OTHER        -> x.v

to_float(value) ==
    LET r == PyFloat(value)
    IN  IF r.k \in {"ValueError", "TypeError"} THEN Zero ELSE r

\* query string of a request / parameters of a redirect
NoArgs == [loaded_cost |-> None, cogs |-> None, overhead |-> None,
           comp_price |-> <<None, None, None>>]

\* form body of a request (every field absent)
NoForm == [cost_materials |-> None, labor_hours |-> None, labor_rate |-> None,
           packaging_cost |-> None, shipping_cost |-> None,
           monthly_overhead |-> None, monthly_production_volume |-> None,
           comp_name |-> <<None, None, None>>,
           comp_price |-> <<None, None, None>>,
           original_cogs |-> None, original_price |-> None,
           new_cogs |-> None, new_price |-> None, projected_volume |-> None]

\* results = None, or the dict as a set of <<key, value>> items
NoResults == [none |-> TRUE, items |-> {}]
Dict(items) == [none |-> FALSE, items |-> items]
Keys(r) == {it[1] : it \in r.items}

NoContext == [loaded_cost |-> Zero, cogs |-> Zero, strategies |-> <<>>,
              results |-> NoResults]

NoLocals == [volume |-> Zero, direct_labor_cost |-> Zero,
             cogs_per_unit |-> Zero, overhead_per_unit |-> Zero,
             fully_loaded_cost |-> Zero, monthly_overhead |-> Zero,
             comp_prices |-> <<>>, market_avg_price |-> Zero]

NoResp == [kind |-> "none", target |-> "", params |-> NoArgs,
           context |-> NoContext, exc |-> ""]
Render(template, context) ==
    [kind |-> "render", target |-> template, params |-> NoArgs,
     context |-> context, exc |-> ""]
Redirect(endpoint, params) ==
    [kind |-> "redirect", target |-> endpoint, params |-> params,
     context |-> NoContext, exc |-> ""]
\* an exception escaping the handler
Error(name) ==
    [kind |-> "error", target |-> "", params |-> NoArgs,
     context |-> NoContext, exc |-> name]

\* the first exception among the values computed, in evaluation order
RECURSIVE FirstExc(_)
FirstExc(vals) ==
    IF vals = <<>> THEN ""
    ELSE IF IsExc(Head(vals)) THEN Head(vals).k
    ELSE FirstExc(Tail(vals))

\* ------------------------------------------------- stage 1: Cost Calculator
\* variant: the replacement guarded by "< 0" instead of "== 0"
floor_volume_negative(volume) == IF FLt(volume, Zero) THEN One ELSE volume

\* variant: the zero guard left out
floor_volume_unguarded(volume) == volume

\* lines 35-36 and 159-160: the volume actually used as divisor or multiplier
floor_volume(volume) == IF FEq(volume, Zero) THEN One ELSE volume

module1_cost_calculator(method, form) ==
    IF method = "POST" THEN
        LET cost_materials == to_float(form.cost_materials)
            labor_hours    == to_float(form.labor_hours)
            labor_rate     == to_float(form.labor_rate)
            packaging_cost == to_float(form.packaging_cost)
            shipping_cost  == to_float(form.shipping_cost)
            monthly_overhead == to_float(form.monthly_overhead)
            monthly_production_volume ==
                floor_volume(to_float(form.monthly_production_volume))
            direct_labor_cost == FMul(labor_hours, labor_rate)
            cogs_per_unit ==
                FAdd(FAdd(FAdd(cost_materials, direct_labor_cost),
                          packaging_cost), shipping_cost)
            overhead_per_unit == FDiv(monthly_overhead, monthly_production_volume)
            fully_loaded_cost == FAdd(cogs_per_unit, overhead_per_unit)
            e == FirstExc(<<overhead_per_unit>>)
        IN  [resp |->
               IF e # "" THEN Error(e)
               ELSE Redirect("module2_market_analyzer",
                        [NoArgs EXCEPT !.loaded_cost = Repr(fully_loaded_cost),
                                       !.cogs = Repr(cogs_per_unit),
                                       !.overhead = Repr(monthly_overhead)]),
             locals |->
               [NoLocals EXCEPT !.volume = monthly_production_volume,
                                !.direct_labor_cost = direct_labor_cost,
                                !.cogs_per_unit = cogs_per_unit,
                                !.overhead_per_unit = overhead_per_unit,
                                !.fully_loaded_cost = fully_loaded_cost,
                                !.monthly_overhead = monthly_overhead]]
    ELSE [resp |-> Render("noindex.html", NoContext), locals |-> NoLocals]

\* ------------------------------------------------- stage 2: Market Analyzer
\* variant: the name of the entry not looked at
valid_competitor_unnamed(e) == FGt(e.price, Zero)

\* line 67: the entries kept
valid_competitor(e) == Truthy(e.name) /\ FGt(e.price, Zero)

\* line 76: comp_price_1..k of the redirect, the other slots absent
comp_price_params(competitors) ==
    [i \in 1..3 |-> IF i <= Len(competitors)
                    THEN Repr(competitors[i].price) ELSE None]

module2_market_analyzer(method, args, form) ==
    LET fully_loaded_cost == to_float(args.loaded_cost)
        cogs == to_float(args.cogs)
        monthly_overhead == to_float(args.overhead)
        loc == [NoLocals EXCEPT !.fully_loaded_cost = fully_loaded_cost,
                                !.cogs_per_unit = cogs,
                                !.monthly_overhead = monthly_overhead]
    IN  IF method = "POST" THEN
            LET entries == [i \in 1..3 |->
                              [name |-> form.comp_name[i],
                               price |-> to_float(form.comp_price[i])]]
                competitors == SelectSeq(entries, valid_competitor)
            IN  [resp |-> Redirect("module3_strategy_modeler",
                            [loaded_cost |-> Repr(fully_loaded_cost),
                             cogs |-> Repr(cogs),
                             overhead |-> Repr(monthly_overhead),
                             comp_price |-> comp_price_params(competitors)]),
                 locals |-> [loc EXCEPT !.comp_prices =
                               [i \in 1..Len(competitors) |-> competitors[i].price]]]
        ELSE [resp |-> Render("module2.html",
                          [NoContext EXCEPT !.loaded_cost = fully_loaded_cost]),
              locals |-> loc]

\* ------------------------------------------------ stage 3: Strategy Modeler
RECURSIVE Sum(_)
Sum(prices) == IF prices = <<>> THEN Zero
               ELSE FAdd(Sum(SubSeq(prices, 1, Len(prices) - 1)),
                         prices[Len(prices)])

\* lines 88-92
collect_comp_prices(args) ==
    SelectSeq([i \in 1..3 |-> to_float(args.comp_price[i])],
              LAMBDA price : FGt(price, Zero))

\* line 96
market_average(comp_prices) ==
    IF comp_prices # <<>> THEN FDiv(Sum(comp_prices), Int2F(Len(comp_prices)))
    ELSE Zero

desired_margin == Fin(40, 100)

\* variant: the quotient truncated (int()) instead of rounded
get_breakeven_truncated(price, cogs, monthly_overhead) ==
    LET profit_per_unit == FSub(price, cogs)
        q == FDiv(monthly_overhead, profit_per_unit)
    IN  IF FLe(profit_per_unit, Zero) THEN NA
        ELSE IF IsFin(q) THEN [k |-> "int", n |-> q.n \div q.d, d |-> 1]
        ELSE PyRound(q)

\* lines 108-112
get_breakeven(price, cogs, monthly_overhead) ==
    LET profit_per_unit == FSub(price, cogs)
    IN  IF FLe(profit_per_unit, Zero) THEN NA
        ELSE PyRound(FDiv(monthly_overhead, profit_per_unit))

strategy(name, price, fully_loaded_cost, cogs, monthly_overhead) ==
    [name |-> name, price |-> price,
     profit_per_unit |-> FSub(price, fully_loaded_cost),
     breakeven_units |-> get_breakeven(price, cogs, monthly_overhead)]

\* variant: Penetration appended before Market Average
build_strategies_reordered(fully_loaded_cost, cogs, monthly_overhead, market_avg_price) ==
    LET cost_plus_price == FMul(fully_loaded_cost, FAdd(One, desired_margin))
        first == <<strategy("Cost-Plus (40%)", cost_plus_price,
                            fully_loaded_cost, cogs, monthly_overhead)>>
    IN  IF FGt(market_avg_price, Zero)
        THEN first \o
             <<strategy("Penetration (10% Below Avg)",
                        FMul(market_avg_price, Fin(90, 100)),
                        fully_loaded_cost, cogs, monthly_overhead),
               strategy("Market Average", market_avg_price,
                        fully_loaded_cost, cogs, monthly_overhead),
               strategy("Premium (25% Above Avg)",
                        FMul(market_avg_price, Fin(125, 100)),
                        fully_loaded_cost, cogs, monthly_overhead)>>
        ELSE first

\* lines 115-139
build_strategies(fully_loaded_cost, cogs, monthly_overhead, market_avg_price) ==
    LET cost_plus_price == FMul(fully_loaded_cost, FAdd(One, desired_margin))
        penetration_price == IF FGt(market_avg_price, Zero)
                             THEN FMul(market_avg_price, Fin(90, 100)) ELSE Zero
        premium_price == IF FGt(market_avg_price, Zero)
                         THEN FMul(market_avg_price, Fin(125, 100)) ELSE Zero
        first == <<strategy("Cost-Plus (40%)", cost_plus_price,
                            fully_loaded_cost, cogs, monthly_overhead)>>
    IN  IF FGt(market_avg_price, Zero)
        THEN first \o
             <<strategy("Market Average", market_avg_price,
                        fully_loaded_cost, cogs, monthly_overhead),
               strategy("Penetration (10% Below Avg)", penetration_price,
                        fully_loaded_cost, cogs, monthly_overhead),
               strategy("Premium (25% Above Avg)", premium_price,
                        fully_loaded_cost, cogs, monthly_overhead)>>
        ELSE first

module3_strategy_modeler(args) ==
    LET fully_loaded_cost == to_float(args.loaded_cost)
        cogs == to_float(args.cogs)
        monthly_overhead == to_float(args.overhead)
        comp_prices == collect_comp_prices(args)
        market_avg_price == market_average(comp_prices)
        strategies == build_strategies(fully_loaded_cost, cogs,
                                       monthly_overhead, market_avg_price)
        e == FirstExc(<<market_avg_price>> \o
                      [i \in 1..Len(strategies) |-> strategies[i].breakeven_units])
    IN  [resp |->
           IF e # "" THEN Error(e)
           ELSE Render("module3.html",
                    [NoContext EXCEPT !.strategies = strategies,
                                      !.loaded_cost = fully_loaded_cost,
                                      !.cogs = cogs]),
         locals |-> [NoLocals EXCEPT !.fully_loaded_cost = fully_loaded_cost,
                                     !.cogs_per_unit = cogs,
                                     !.monthly_overhead = monthly_overhead,
                                     !.comp_prices = comp_prices,
                                     !.market_avg_price = market_avg_price]]

\* ------------------------------------------- stage 4: Optimization Simulator
\* lines 153-174: the record computed from a submitted form
what_if(form) ==
    LET original_cogs == to_float(form.original_cogs)
        original_price == to_float(form.original_price)
        new_cogs == to_float(form.new_cogs)
        new_price == to_float(form.new_price)
        projected_volume == floor_volume(to_float(form.projected_volume))
        original_profit_per_unit == FSub(original_price, original_cogs)
        new_profit_per_unit == FSub(new_price, new_cogs)
        new_total_profit == FMul(new_profit_per_unit, projected_volume)
    IN  [results |->
           Dict({<<"original_profit_per_unit", original_profit_per_unit>>,
                 <<"new_profit_per_unit", new_profit_per_unit>>,
                 <<"new_total_profit", new_total_profit>>}),
         locals |-> [NoLocals EXCEPT !.volume = projected_volume]]

\* variant: the record computed on every request
simulate_always(method, form) == what_if(form)

\* lines 150-151: results stays None unless the request is a POST
simulate(method, form) ==
    IF method = "POST" THEN what_if(form)
    ELSE [results |-> NoResults, locals |-> NoLocals]

module4_optimization_simulator(method, args, form) ==
    LET sim == simulate(method, form)
        loaded_cost == to_float(args.loaded_cost)
        cogs == to_float(args.cogs)
    IN  [resp |-> Render("module4.html",
                     [NoContext EXCEPT !.loaded_cost = loaded_cost,
                                       !.cogs = cogs,
                                       !.results = sim.results]),
         locals |-> sim.locals]

\* ------------------------------------------------------------------ state
VARIABLES
    req,      \* the request being served last: route, method, query args, form
    resp,     \* its response: a redirect, a rendered template or an exception
    locals,   \* the handler's local variables when it returned
    handoff   \* history: the preceding stage's output this request's query
              \* args were taken from, with the competitor form when that
              \* stage was the Market Analyzer
              \* (stage 0: the query args were typed by the client)

vars == <<req, resp, locals, handoff>>

NoReq == [route |-> "", method |-> "", args |-> NoArgs, form |-> NoForm]
NoHandoff == [stage |-> 0, loaded_cost |-> None, cogs |-> None, overhead |-> None,
              comp_form |-> NoForm]

\* ----------------------------------------------------- inputs of the client
Amounts == {Repr(Int2F(i)) : i \in 0..MaxAmount}
Half == Fin(1, 2)
MinusOne == Int2F(-1)

Forms1 ==
    {[NoForm EXCEPT !.cost_materials = m, !.labor_hours = h, !.labor_rate = r,
                    !.packaging_cost = p, !.shipping_cost = s,
                    !.monthly_overhead = o, !.monthly_production_volume = v] :
        m \in {Repr(One), Repr(MinusOne)},
        h \in {Text(""), Repr(Int2F(2)), Repr(Inf)},
        r \in {Repr(Zero), Repr(Fin(3, 2))},
        p \in {None, Repr(One)},
        s \in {Text("abc"), Repr(Half)},
        o \in Amounts \cup {Repr(Inf), Repr(NaN)},
        v \in Amounts \cup {Repr(Half), Repr(MinusOne)}}

\* one competitor slot of the Market Analyzer form: <<name, price>>
Slots == {<<Text(""), Repr(One)>>, <<Text("Acme"), Repr(MinusOne)>>}
         \cup {<<Text("Acme"), Repr(Int2F(i))>> : i \in 1..MaxPrice}

Forms2 ==
    {[NoForm EXCEPT !.comp_name = <<a[1], b[1], c[1]>>,
                    !.comp_price = <<a[2], b[2], c[2]>>] :
        a \in Slots \cup {<<None, None>>}, b \in Slots, c \in Slots}

Forms4 ==
    {[NoForm EXCEPT !.original_cogs = oc, !.original_price = op,
                    !.new_cogs = nc, !.new_price = np, !.projected_volume = v] :
        oc \in {None, Repr(One)},
        op \in {Repr(Zero), Repr(Int2F(3))},
        nc \in {Text("abc"), Repr(Int2F(2))},
        np \in {Repr(Zero), Repr(Int2F(5))},
        v \in Amounts \cup {Repr(Half), Repr(MinusOne), Repr(NaN)}}

\* query strings typed by the client instead of following a redirect
DirectCosts ==
    {[NoArgs EXCEPT !.loaded_cost = l, !.cogs = c, !.overhead = o] :
        l \in {None, Repr(Int2F(5))},
        c \in {Repr(Zero), Repr(Int2F(9))},
        o \in {Text("abc"), Repr(Int2F(10)), Repr(Inf)}}

DirectArgs3 ==
    {[a EXCEPT !.comp_price = <<x, y, z>>] :
        a \in DirectCosts,
        x \in {None, Repr(Int2F(8))},
        y \in {None, Repr(MinusOne), Repr(Int2F(MaxPrice))},
        z \in {None, Repr(NaN)}}

\* ---------------------------------------------------------------- actions
Init ==
    /\ req = NoReq
    /\ resp = NoResp
    /\ locals = NoLocals
    /\ handoff = NoHandoff

Idle == resp.kind = "none"
Shown(template) == resp.kind = "render" /\ resp.target = template

Serve(route, method, args, form, out, h) ==
    /\ req' = [route |-> route, method |-> method, args |-> args, form |-> form]
    /\ resp' = out.resp
    /\ locals' = out.locals
    /\ handoff' = h

\* GET / : the empty cost form
Module1Get ==
    /\ Idle
    /\ Serve("module1", "GET", NoArgs, NoForm,
             module1_cost_calculator("GET", NoForm), NoHandoff)

\* POST / : the cost form, submitted from the page or sent directly
Module1Post ==
    /\ Idle \/ Shown("noindex.html")
    /\ \E form \in Forms1 :
         Serve("module1", "POST", NoArgs, form,
               module1_cost_calculator("POST", form), NoHandoff)

\* the browser follows stage 1's redirect
Follow2 ==
    /\ resp.kind = "redirect" /\ resp.target = "module2_market_analyzer"
    /\ Serve("module2", "GET", resp.params, NoForm,
             module2_market_analyzer("GET", resp.params, NoForm),
             [stage |-> 1, loaded_cost |-> resp.params.loaded_cost,
              cogs |-> resp.params.cogs, overhead |-> resp.params.overhead,
              comp_form |-> NoForm])

\* GET /market-analysis with a query string typed by the client
Module2GetDirect ==
    /\ Idle
    /\ \E args \in DirectCosts :
         Serve("module2", "GET", args, NoForm,
               module2_market_analyzer("GET", args, NoForm), NoHandoff)

\* the competitor form is posted back to the URL of the page shown
Module2Post ==
    /\ Shown("module2.html")
    /\ \E form \in Forms2 :
         Serve("module2", "POST", req.args, form,
               module2_market_analyzer("POST", req.args, form), handoff)

\* POST /market-analysis sent directly
Module2PostDirect ==
    /\ Idle
    /\ \E args \in DirectCosts, form \in Forms2 :
         Serve("module2", "POST", args, form,
               module2_market_analyzer("POST", args, form), NoHandoff)

\* the browser follows stage 2's redirect
Follow3 ==
    /\ resp.kind = "redirect" /\ resp.target = "module3_strategy_modeler"
    /\ Serve("module3", "GET", resp.params, NoForm,
             module3_strategy_modeler(resp.params),
             [stage |-> 2, loaded_cost |-> resp.params.loaded_cost,
              cogs |-> resp.params.cogs, overhead |-> resp.params.overhead,
              comp_form |-> req.form])

\* GET /pricing-strategy with a query string typed by the client
Module3GetDirect ==
    /\ Idle
    /\ \E args \in DirectArgs3 :
         Serve("module3", "GET", args, NoForm,
               module3_strategy_modeler(args), NoHandoff)

\* from the strategy page on to the simulator, with the two values the page got
Proceed4 ==
    /\ Shown("module3.html")
    /\ LET args == [NoArgs EXCEPT !.loaded_cost = Repr(resp.context.loaded_cost),
                                  !.cogs = Repr(resp.context.cogs)]
       IN  Serve("module4", "GET", args, NoForm,
                 module4_optimization_simulator("GET", args, NoForm),
                 [stage |-> 3, loaded_cost |-> args.loaded_cost,
                  cogs |-> args.cogs, overhead |-> None,
                  comp_form |-> NoForm])

\* GET /optimization-simulator with a query string typed by the client
Module4GetDirect ==
    /\ Idle
    /\ \E args \in DirectCosts :
         Serve("module4", "GET", args, NoForm,
               module4_optimization_simulator("GET", args, NoForm), NoHandoff)

\* the what-if form is posted back to the URL of the page shown
Module4Post ==
    /\ Shown("module4.html")
    /\ \E form \in Forms4 :
         Serve("module4", "POST", req.args, form,
               module4_optimization_simulator("POST", req.args, form), handoff)

\* the client abandons the page (or the error) and starts over
Leave ==
    /\ ~Idle
    /\ req' = NoReq /\ resp' = NoResp /\ locals' = NoLocals
    /\ handoff' = NoHandoff

Next ==
    \/ Module1Get
    \/ Module1Post
    \/ Follow2
    \/ Module2GetDirect
    \/ Module2Post
    \/ Module2PostDirect
    \/ Follow3
    \/ Module3GetDirect
    \/ Proceed4
    \/ Module4GetDirect
    \/ Module4Post
    \/ Leave

Spec == Init /\ [][Next]_vars

\* ================================================================ properties
Posted(route)  == req.route = route /\ req.method = "POST"
Rendered3 == req.route = "module3" /\ resp.kind = "render"
Strategies == resp.context.strategies
Names(strategies) == [i \in 1..Len(strategies) |-> strategies[i].name]

\* the competitor prices present in the Strategy Modeler's query
PresentPrices == {i \in 1..3 : FGt(to_float(req.args.comp_price[i]), Zero)}

\* C1: the Strategy Modeler returns exactly the one strategy Cost-Plus when
\* no competitor price is present, and exactly the four strategies Cost-Plus,
\* Market Average, Penetration, Premium, in this order, when at least one is.
C1_StrategyList ==
    Rendered3 =>
        /\ PresentPrices = {} => Names(Strategies) = <<"Cost-Plus (40%)">>
        /\ PresentPrices # {} =>
             Names(Strategies) = <<"Cost-Plus (40%)", "Market Average",
                                   "Penetration (10% Below Avg)",
                                   "Premium (25% Above Avg)">>

C1_Witness ==
    /\ Rendered3
    /\ Cardinality(PresentPrices) = 2
    /\ Len(Strategies) = 4

\* u is an integer nearest to the float q
IsNearest(u, q) ==
    /\ u.k = "int"
    /\ IsFin(q)
    /\ 2 * Abs(u.n * q.d - q.n) <= q.d

ArgCogs == to_float(req.args.cogs)
ArgOverhead == to_float(req.args.overhead)
Quotient(st) == FDiv(ArgOverhead, FSub(st.price, ArgCogs))

\* C2: for every strategy returned, breakeven_units is 'N/A' exactly when
\* price <= cogs, and otherwise it is monthly_overhead / (price - cogs)
\* rounded to a nearest whole number.
C2_Breakeven ==
    Rendered3 =>
        \A i \in 1..Len(Strategies) :
            LET st == Strategies[i]
            IN  /\ st.breakeven_units = NA <=> FLe(st.price, ArgCogs)
                /\ st.breakeven_units # NA =>
                     IsNearest(st.breakeven_units, Quotient(st))

C2_Witness ==
    /\ Rendered3
    /\ \E i \in 1..Len(Strategies) : Strategies[i].breakeven_units = NA
    /\ \E i \in 1..Len(Strategies) :
         /\ Strategies[i].breakeven_units # NA
         /\ Quotient(Strategies[i]).d = 2

\* C3: a numeric breakeven_units u (price > cogs, monthly_overhead >= 0) is
\* the smallest whole number of units that recovers the overhead:
\* u * (price - cogs) >= monthly_overhead > (u - 1) * (price - cogs).
C3_SmallestRecovering ==
    Rendered3 =>
        \A i \in 1..Len(Strategies) :
            LET st == Strategies[i]
                u == st.breakeven_units
                margin == FSub(st.price, ArgCogs)
            IN  (u.k = "int" /\ FGt(st.price, ArgCogs) /\ FGe(ArgOverhead, Zero))
                => /\ FGe(FMul(Int2F(u.n), margin), ArgOverhead)
                   /\ FLt(FMul(Int2F(u.n - 1), margin), ArgOverhead)

\* C4: no stage ever fails with an exception: every request gets a redirect
\* or a rendered page.
C4_NoException == resp.kind # "error"

\* the stage a route belongs to
StageOf(route) ==
    CASE route = "module1" -> 1
      [] route = "module2" -> 2
      [] route = "module3" -> 3
      [] route = "module4" -> 4
      [] OTHER -> 0

\* C5: the stages 2, 3 and 4 only ever compute on the cost values handed on
\* by a completed run of the stage before them.
C5_ForwardOnly ==
    StageOf(req.route) >= 2 =>
        /\ handoff.stage = StageOf(req.route) - 1
        /\ req.args.loaded_cost = handoff.loaded_cost
        /\ req.args.cogs = handoff.cogs
        /\ req.args.overhead = handoff.overhead

SubmittedVolume ==
    IF req.route = "module1" THEN to_float(req.form.monthly_production_volume)
    ELSE to_float(req.form.projected_volume)
VolumeUsed == Posted("module1") \/ Posted("module4")

\* C6 as stated: the volume divided or multiplied by is never less than 1.
C6_FlooredAtOne == VolumeUsed => FGe(locals.volume, One)

\* C6 as amended: the volume divided or multiplied by is 1 when the submitted
\* volume equals 0 and the submitted volume otherwise; it is never 0.
C6_ZeroReplaced ==
    VolumeUsed =>
        /\ FEq(SubmittedVolume, Zero) => locals.volume = One
        /\ ~FEq(SubmittedVolume, Zero) => locals.volume = SubmittedVolume
        /\ ~FEq(locals.volume, Zero)

C6_Witness ==
    /\ Posted("module1")
    /\ SubmittedVolume = Zero
    /\ locals.volume = One
    /\ resp.kind = "redirect"

\* the slots of a competitor form with a non-empty name and a price > 0
ValidSlots(form) ==
    {i \in 1..3 : /\ form.comp_name[i] \notin {None, Text("")}
                  /\ FGt(to_float(form.comp_price[i]), Zero)}
InOrder(S) ==
    CHOOSE sq \in [1..Cardinality(S) -> S] :
        \A i, j \in 1..Cardinality(S) : i < j => sq[i] < sq[j]
ExpectedPrices(form) ==
    LET slots == InOrder(ValidSlots(form))
    IN  [i \in 1..Cardinality(ValidSlots(form)) |->
            to_float(form.comp_price[slots[i]])]

ViaMarketAnalyzer == req.route = "module3" /\ handoff.stage = 2

\* C7: after Market Analyzer -> Strategy Modeler, the prices averaged are
\* exactly the prices of the submitted entries with a non-empty name and a
\* price > 0, in entry order; there are between 0 and 3 of them.
C7_AveragedPrices ==
    ViaMarketAnalyzer =>
        /\ locals.comp_prices = ExpectedPrices(handoff.comp_form)
        /\ Len(locals.comp_prices) \in 0..3
        /\ locals.comp_prices = <<>> => locals.market_avg_price = Zero
        /\ locals.comp_prices # <<>> =>
             FMul(locals.market_avg_price, Int2F(Len(locals.comp_prices)))
                = Sum(locals.comp_prices)

C7_Witness ==
    /\ ViaMarketAnalyzer
    /\ resp.kind = "render"
    /\ ValidSlots(handoff.comp_form) = {2, 3}
    /\ handoff.comp_form.comp_name[1] = Text("")
    /\ FGt(to_float(handoff.comp_form.comp_price[1]), Zero)
    /\ Len(locals.comp_prices) = 2

ResultKeys == {"original_profit_per_unit", "new_profit_per_unit",
               "new_total_profit"}

\* C8: the Optimization Simulator's results is None exactly on a GET; on a
\* POST it is a record of original_profit_per_unit, new_profit_per_unit and
\* new_total_profit and of nothing else (no total profit of the original).
C8_ResultsIffPost ==
    req.route = "module4" =>
        /\ resp.kind = "render"
        /\ resp.context.results.none <=> req.method = "GET"
        /\ req.method = "POST" => Keys(resp.context.results) = ResultKeys
        /\ "original_total_profit" \notin Keys(resp.context.results)

C8_Witness ==
    /\ Posted("module4")
    /\ ~resp.context.results.none
    /\ \A it \in resp.context.results.items : it[2] = Zero

\* C9: a submitted volume of 0 gives the outputs of a submitted volume of 1.
C9_ZeroLikeOne ==
    /\ (Posted("module1") /\ SubmittedVolume = Zero) =>
         LET one == module1_cost_calculator("POST",
                      [req.form EXCEPT !.monthly_production_volume = Repr(One)])
         IN  /\ resp = one.resp
             /\ locals.overhead_per_unit = one.locals.overhead_per_unit
             /\ locals.fully_loaded_cost = one.locals.fully_loaded_cost
    /\ (Posted("module4") /\ SubmittedVolume = Zero) =>
         resp = module4_optimization_simulator("POST", req.args,
                    [req.form EXCEPT !.projected_volume = Repr(One)]).resp

C9_Witness ==
    /\ Posted("module1")
    /\ req.form.monthly_production_volume = Repr(Zero)
    /\ to_float(req.form.monthly_overhead) = Int2F(2)
    /\ resp.kind = "redirect"

NonNegative(x) == FGe(to_float(x), Zero)

\* C10: for non-negative inputs of the Cost Calculator,
\* fully_loaded_cost >= cogs_per_unit >= direct_labor_cost >= 0, and the
\* overhead handed on is the overhead submitted.
C10_CostOrder ==
    (/\ Posted("module1")
     /\ \A x \in {req.form.cost_materials, req.form.labor_hours,
                  req.form.labor_rate, req.form.packaging_cost,
                  req.form.shipping_cost, req.form.monthly_overhead,
                  req.form.monthly_production_volume} : NonNegative(x))
    => /\ FGe(locals.fully_loaded_cost, locals.cogs_per_unit)
       /\ FGe(locals.cogs_per_unit, locals.direct_labor_cost)
       /\ FGe(locals.direct_labor_cost, Zero)
       /\ resp.kind = "redirect"
       /\ to_float(resp.params.overhead) = to_float(req.form.monthly_overhead)
====
